---------------------------- MODULE Spec2Model ----------------------------
(***************************************************************************)
(* Thai Lotto Analyzer (src/script.js, first variant, lines 1-646).        *)
(*                                                                         *)
(* Conventions of the model                                                *)
(*  - a date string 'YYYY-MM-DD' is the triple <<y, m, d>>; localeCompare   *)
(*    on such strings is the lexicographic order of the triples;           *)
(*  - a Date is its time value counted in HOURS of local time (the ms      *)
(*    values of the code do not fit TLC's 32-bit integers);                *)
(*  - a wall clock reading is the record [y, m, d, h].                     *)
(***************************************************************************)
EXTENDS Integers, Sequences, FiniteSets, TLC

VARIABLES
    \* ---- batchFetchWithProgress (one running call) ----
    urls,           \* the list handed to the scheduler: Seq of dateStr
    concurrency,    \* its concurrency argument
    idx,            \* shared cursor
    completed,      \* progress counter
    results,        \* Seq of [dateStr, text], in completion order
    workers,        \* worker loop -> [pc, i]: pc in {"fetch","text","done"}
    batch,          \* "none" | "running" | "returned"
    issued,         \* dateStr -> number of fetch(url) calls made for it
    failed,         \* the dateStr whose retrieval settled without a text
    served,         \* dateStr -> the text its retrieval gave
    \* ---- module state of script.js ----
    perFileAggMap,  \* the store: dateStr -> aggregate
    dateMap,        \* Seq of dateStr, sorted by date
    selectedDates,  \* the Set, as the sequence of its insertion order
    counts,         \* prize -> value -> [count, dates]
    digitCounts,    \* prize -> Seq of (digit -> count)
    resultsByDate,  \* dateStr -> displayResults
    \* ---- the page's controls and the clock ----
    timeMode,       \* value of the checked timeMode radio
    drawsInput,     \* parseInt of each number field: <<>> for NaN, else <<n>>
    yearsInput,
    monthsInput,
    fixedStart,     \* fixedStartCB.checked
    now,            \* wall clock [y, m, d, h]
    \* ---- progressiveFetchAndProcess ----
    cache,          \* the record under CACHE_KEY: <<>> or <<[fetchedAt, data]>>
    pendingBlob,    \* the blob handed to saveCacheBlob, <<>> when none
    recentToFetch,  \* the two fetch lists (locals of the function)
    olderToFetch,
    gi,             \* offset i of the group the parser worker is parsing
    parserWorker,   \* "none" | "alive" | "terminated"
    loading,        \* loadingEl has class 'show'
    output,         \* renderTables: [renders, dates], the dates drawn last
    uiEvents,       \* number of control events handled so far
    \* ---- functions run on their own ----
    fileText,       \* the text given to parseTextToAggregate: Seq of lines
    aggregate,      \* <<>> or <<what parseTextToAggregate returned>>
    enumerated,     \* <<>> or <<what buildCandidateUrls returned>>
    \* ---- the CSV export page (src/unnamed/part_001) ----
    prizeSelect,    \* prizeSelect.value, "" when no prize is chosen
    showCsvDisabled, \* showCsvBtn.disabled
    csvPending,     \* the prize of each click handler awaiting loadCacheBlob
    csvOutput,      \* csvOutput.style.display, and csvContent.textContent as
                    \* its lines or else its message; the prize it was made for
    \* ---- the archive updater (src/updateLottoFolder.js) ----
    localFolder,    \* ./lottonumbers: <<>> when missing, else <<its files>>
    tempDir,        \* ./temp_repo: <<>> when missing, else <<the lottonumbers
                    \* folder under its thai-lotto-archive-master>>
    archive,        \* <<>> or <<the archive this run has downloaded>>
    exitCode,       \* <<>> while the process runs, else <<its exit status>>
    \* ---- position of the operation under way ----
    pc

poolVars == <<urls, concurrency, idx, completed, results, workers, batch, issued,
              failed, served>>
mergeVars == <<counts, digitCounts, resultsByDate>>

uiVars == <<timeMode, drawsInput, yearsInput, monthsInput, fixedStart>>

pipeVars == <<cache, pendingBlob, recentToFetch, olderToFetch, gi, parserWorker,
              loading>>

csvVars == <<prizeSelect, showCsvDisabled, csvPending, csvOutput>>

updVars == <<localFolder, tempDir, archive, exitCode>>

toolVars == <<csvVars, updVars>>

unitVars == <<fileText, aggregate, enumerated, toolVars>>

vars == <<poolVars, perFileAggMap, dateMap, selectedDates, mergeVars, uiVars, now,
          unitVars, pipeVars, output, uiEvents, pc>>

----------------------------------------------------------------------------
(* Bounds of the model *)
MaxUrls == 4            \* longest url list given to a stand-alone batch
MaxConcurrency == 3     \* largest concurrency given to a stand-alone batch
MaxCandidates == 4      \* the pipeline keeps the last MaxCandidates candidates
MaxUiEvents == 1        \* control events handled in one run of the pipeline
MaxMergeDates == 52     \* most dates given to a stand-alone merge
SmallMerge == 3         \* the merge sizes tried are 0..SmallMerge and those
                        \* from the cap minus one up to MaxMergeDates

SeqSet(s) == {s[i] : i \in 1..Len(s)}

Min(a, b) == IF a <= b THEN a ELSE b
Max(a, b) == IF a >= b THEN a ELSE b

----------------------------------------------------------------------------
(* Calendar: JavaScript Date in local time, no DST (time value in hours) *)

IsLeap(y) == (y % 4 = 0 /\ y % 100 # 0) \/ y % 400 = 0

\* days from 0000-01-01 to y-01-01 (proleptic Gregorian)
DaysBeforeYear(y) ==
    365 * y + ((y + 3) \div 4) - ((y + 99) \div 100) + ((y + 399) \div 400)

MonthLengths(y) ==
    <<31, IF IsLeap(y) THEN 29 ELSE 28, 31, 30, 31, 30, 31, 31, 30, 31, 30, 31>>

RECURSIVE DaysBeforeMonth(_, _)
\* m0 is the 0-based month index, 0..11
DaysBeforeMonth(y, m0) ==
    IF m0 = 0 THEN 0 ELSE DaysBeforeMonth(y, m0 - 1) + MonthLengths(y)[m0]

\* ECMAScript MakeDay: month index and day of month may lie outside their
\* ranges and are carried into the year and the following months
MakeDay(y, m0, d) ==
    LET yy == y + (m0 \div 12)
        mm == m0 % 12
    IN  DaysBeforeYear(yy) + DaysBeforeMonth(yy, mm) + (d - 1)

\* time value, in hours, of local y-m-d h:00; m0 is the 0-based month index
TimeValue(y, m0, d, h) == MakeDay(y, m0, d) * 24 + h

\* new Date(dateStr + 'T00:00')
DateOf(dateStr) == TimeValue(dateStr[1], dateStr[2] - 1, dateStr[3], 0)

\* new Date() / Date.now() at clock reading c
ClockValue(c) == TimeValue(c.y, c.m - 1, c.d, c.h)

\* a.localeCompare(b) < 0 for date strings
StrLess(a, b) ==
    \/ a[1] < b[1]
    \/ a[1] = b[1] /\ a[2] < b[2]
    \/ a[1] = b[1] /\ a[2] = b[2] /\ a[3] < b[3]

----------------------------------------------------------------------------
(* Source files.  A text is a sequence of lines; a line, once trimmed and  *)
(* split on whitespace, is its first token (the tag) and the other tokens  *)
(* (sequences of characters).  A blank line has the empty tag.             *)

PRIZE_LIST == <<"FIRST", "SECOND", "THIRD", "FOURTH", "FIFTH", "TWO",
                "THREE_FIRST", "THREE_LAST", "NEAR_FIRST">>

Prizes == {PRIZE_LIST[i] : i \in 1..Len(PRIZE_LIST)}

Line(tag, nums) == [tag |-> tag, nums |-> nums]

HeaderLine == Line("date", <<>>)

\* the texts the server may answer with, by name
TextOf(t) ==
    CASE t = "t1" -> <<HeaderLine,
                       Line("FIRST", << <<"1", "2", "3", "4", "5", "6">> >>),
                       Line("TWO", << <<"1", "2">>, <<"3", "4">> >>)>>
      [] t = "t2" -> <<HeaderLine,
                       Line("FIRST", << <<"6", "5", "4", "3", "1", "2">> >>),
                       Line("", <<>>),
                       Line("TWO", << <<"1", "2">>, <<"1", "2">> >>),
                       Line("THREE_LAST", << <<"x", "3", "1", "2">> >>)>>
      [] t = "t3" -> <<HeaderLine,
                       Line("TWO", << <<"3", "4">>, <<"1", "2">> >>),
                       Line("BONUS", << <<"9", "9">> >>)>>
      [] t = "t4" -> <<HeaderLine,
                       Line("TWO", << <<"5", "6">> >>),
                       Line("FIRST", << <<"1", "2", "3", "4", "5", "6">> >>),
                       Line("TWO", << <<"7", "8">> >>)>>
      [] t = "bad" -> <<HeaderLine,
                        Line("TWO", << <<"1", "2">> >>),
                        Line("constructor", << <<"7">> >>)>>

ServedTexts == {"t1", "bad"}

----------------------------------------------------------------------------
(* parseTextToAggregate of the parser worker *)

\* p==='TWO' ? 2 : p.startsWith('THREE') ? 3 : 6
PrizeLen(p) == IF p = "TWO" THEN 2
               ELSE IF p \in {"THREE_FIRST", "THREE_LAST"} THEN 3 ELSE 6

\* keys every plain object inherits from Object.prototype: prizesAgg[tag] is
\* truthy for them although tag is not a prize
ObjectPrototypeKeys == {"constructor", "toString", "valueOf", "hasOwnProperty",
                        "isPrototypeOf", "propertyIsEnumerable", "toLocaleString",
                        "__proto__"}

\* n.slice(-len)
SliceLast(n, len) == IF Len(n) <= len THEN n ELSE SubSeq(n, Len(n) - len + 1, Len(n))

\* obj[k] = (obj[k] || 0) + c
Inc(obj, k, c) == IF k \in DOMAIN obj THEN [obj EXCEPT ![k] = @ + c] ELSE obj @@ (k :> c)

RECURSIVE Join(_)
\* lastVals.join(', ')
Join(vals) ==
    IF Len(vals) = 0 THEN <<>>
    ELSE IF Len(vals) = 1 THEN vals[1]
    ELSE vals[1] \o <<",", " ">> \o Join(Tail(vals))

RECURSIVE AddDigits(_, _, _)
\* val.split('').forEach((d,i) => digitAgg[tag][i][d] = (digitAgg[tag][i][d] || 0) + 1)
AddDigits(pods, val, i) ==
    IF i > Len(val) THEN pods
    ELSE AddDigits([pods EXCEPT ![i] = Inc(@, val[i], 1)], val, i + 1)

RECURSIVE AddVals(_, _, _)
\* lastVals.forEach(val => ...)
AddVals(agg, tag, vals) ==
    IF Len(vals) = 0 THEN agg
    ELSE LET val == Head(vals)
         IN  IF Len(val) = 0 THEN AddVals(agg, tag, Tail(vals))
             ELSE AddVals([agg EXCEPT !.prizesAgg[tag] = Inc(@, val, 1),
                                      !.digitAgg[tag] = AddDigits(@, val, 1)],
                          tag, Tail(vals))

\* one line of lines.slice(1).forEach
ParseLine(agg, line) ==
    IF agg.threw \/ line.tag = "" THEN agg
    ELSE IF line.tag \in Prizes
    THEN LET lastVals == [k \in 1..Len(line.nums) |->
                             SliceLast(line.nums[k], PrizeLen(line.tag))]
         IN  AddVals([agg EXCEPT !.results = [t \in DOMAIN @ \cup {line.tag} |->
                                   IF t = line.tag THEN Join(lastVals) ELSE @[t]]],
                     line.tag, lastVals)
    ELSE IF line.tag \in ObjectPrototypeKeys
    \* prizesAgg[tag] is an inherited member: the line is not skipped, and
    \* digitAgg[tag][0] is undefined, so the first value throws a TypeError
    THEN IF \E k \in 1..Len(line.nums) : Len(line.nums[k]) > 0
         THEN [agg EXCEPT !.threw = TRUE]
         ELSE IF line.tag = "__proto__" THEN agg
         ELSE [agg EXCEPT !.results = [t \in DOMAIN @ \cup {line.tag} |->
                                   IF t = line.tag THEN <<>> ELSE @[t]]]
    ELSE agg

RECURSIVE ParseLines(_, _, _)
ParseLines(agg, lines, k) ==
    IF k > Len(lines) THEN agg ELSE ParseLines(ParseLine(agg, lines[k]), lines, k + 1)

EmptyObj == <<>>

\* the aggregate, with threw = TRUE when the function throws instead
parseTextToAggregate(dateStr, text) ==
    ParseLines([dateStr |-> dateStr,
                prizesAgg |-> [p \in Prizes |-> EmptyObj],
                digitAgg |-> [p \in Prizes |-> [i \in 1..PrizeLen(p) |-> EmptyObj]],
                results |-> EmptyObj,
                threw |-> FALSE],
               text, 2)

RECURSIVE ParseBatchAbort(_, _, _)
\* as ParseBatch, but the first file that throws ends the batch
ParseBatchAbort(files, k, out) ==
    IF k > Len(files) THEN out
    ELSE LET f == files[k]
             a == parseTextToAggregate(f.dateStr, TextOf(f.text))
         IN  IF a.threw THEN out
             ELSE ParseBatchAbort(files, k + 1,
                      [d \in DOMAIN out \cup {f.dateStr} |->
                          IF d = f.dateStr THEN a ELSE out[d]])

RECURSIVE ParseBatch(_, _, _)
\* self.onmessage, cmd 'parseBatch': out[f.dateStr] = parse, or skip on throw
ParseBatch(files, k, out) ==
    IF k > Len(files) THEN out
    ELSE LET f == files[k]
             a == parseTextToAggregate(f.dateStr, TextOf(f.text))
         IN  ParseBatch(files, k + 1,
                 IF a.threw THEN out
                 ELSE [d \in DOMAIN out \cup {f.dateStr} |->
                          IF d = f.dateStr THEN a ELSE out[d]])

----------------------------------------------------------------------------
(* computeSelectedDatesFromMode *)

\* FIXED_START = new Date('2006-12-30T00:00')
FIXED_START == DateOf(<<2006, 12, 30>>)

\* parseInt(input.value, 10) || dflt
OrDefault(field, dflt) == IF field = <<>> \/ field[1] = 0 THEN dflt ELSE field[1]

\* Array.prototype.slice(start, end)
JsSlice(s, start, end) ==
    LET len == Len(s)
        from == IF start < 0 THEN Max(len + start, 0) ELSE Min(start, len)
        to == IF end < 0 THEN Max(len + end, 0) ELSE Min(end, len)
    IN  SubSeq(s, from + 1, to)

\* end of the anchored window: new Date(FIXED_START), moved when the size is > 0
AnchoredEnd(mode, size) ==
    IF size > 0
    THEN IF mode = "years"
         THEN TimeValue(2006 + size, 11, 30, 0)        \* setFullYear(getFullYear() + yrs)
         ELSE TimeValue(2006, 11 + size, 30, 0)        \* setMonth(getMonth() + mon)
    ELSE FIXED_START

\* start of the trailing window: new Date(), moved back by the size
TrailingCut(mode, size, clock) ==
    IF mode = "years"
    THEN TimeValue(clock.y - size, clock.m - 1, clock.d, clock.h)
    ELSE TimeValue(clock.y, clock.m - 1 - size, clock.d, clock.h)

DrawsSliceFirst(perFileDates, n) == JsSlice(perFileDates, 0, n)
DrawsSlice(perFileDates, n) == JsSlice(perFileDates, -n, Len(perFileDates))

\* the selectedDates Set after the call, as its insertion order
computeSelectedDatesFromMode(perFileDates, mode, draws, years, months, anchored, clock) ==
    IF mode = "draws"
    THEN LET N == OrDefault(draws, 1)
         IN  IF anchored
             THEN LET AtOrAfterStart(x) == DateOf(x) >= FIXED_START
                  IN  JsSlice(SelectSeq(perFileDates, AtOrAfterStart), 0, N)
             ELSE DrawsSlice(perFileDates, N)
    ELSE IF mode \in {"years", "months"}
    THEN LET size == OrDefault(IF mode = "years" THEN years ELSE months, 0)
         IN  IF anchored
             THEN LET end == AnchoredEnd(mode, size)
                      InWindow(x) == DateOf(x) >= FIXED_START /\ DateOf(x) <= end
                  IN  SelectSeq(perFileDates, InWindow)
             ELSE IF size > 0
             THEN LET cut == TrailingCut(mode, size, clock)
                      AfterCut(x) == DateOf(x) >= cut
                  IN  SelectSeq(perFileDates, AfterCut)
             ELSE perFileDates
    ELSE perFileDates

\* computeSelectedDatesFromMode(dateMap) under the controls as they stand
Selection(perFileDates) ==
    computeSelectedDatesFromMode(perFileDates, timeMode, drawsInput, yearsInput,
                                 monthsInput, fixedStart, now)

----------------------------------------------------------------------------
(* resetCounts and combineAggregatesForDates *)

MAX_DATES_RECORD == 50

\* resetCounts()
ResetCounts == [p \in Prizes |-> EmptyObj]
ResetDigitCounts == [p \in Prizes |-> [i \in 1..PrizeLen(p) |-> EmptyObj]]

\* bucket[val] = bucket[val] || {count:0, dates:[]}; count += cnt;
\* if (dates.length < MAX_DATES_RECORD) dates.push(dateStr)
PushDateUncapped(dates, dateStr) == Append(dates, dateStr)
\* as PushDate, but a full list drops its first date for the new one
PushDateLatest(dates, dateStr) ==
    IF Len(dates) < MAX_DATES_RECORD THEN Append(dates, dateStr)
    ELSE Append(Tail(dates), dateStr)
PushDate(dates, dateStr) ==
    IF Len(dates) < MAX_DATES_RECORD THEN Append(dates, dateStr) ELSE dates

AddCountOnce(old, cnt) == old + 1
AddCount(old, cnt) == old + cnt

RECURSIVE PushTimes(_, _, _)
PushTimes(dates, dateStr, n) ==
    IF n = 0 THEN dates ELSE PushTimes(PushDate(dates, dateStr), dateStr, n - 1)

\* as MergeBucket, but the date is pushed once for each occurrence counted
MergeBucketPerOccurrence(bucket, prizeMap, dateStr) ==
    [val \in DOMAIN bucket \cup DOMAIN prizeMap |->
        IF val \notin DOMAIN prizeMap THEN bucket[val]
        ELSE LET b == IF val \in DOMAIN bucket THEN bucket[val]
                      ELSE [count |-> 0, dates |-> <<>>]
             IN  [count |-> AddCount(b.count, prizeMap[val]),
                  dates |-> PushTimes(b.dates, dateStr, prizeMap[val])]]

MergeBucket(bucket, prizeMap, dateStr) ==
    [val \in DOMAIN bucket \cup DOMAIN prizeMap |->
        IF val \notin DOMAIN prizeMap THEN bucket[val]
        ELSE LET b == IF val \in DOMAIN bucket THEN bucket[val]
                      ELSE [count |-> 0, dates |-> <<>>]
             IN  [count |-> AddCount(b.count, prizeMap[val]),
                  dates |-> PushDate(b.dates, dateStr)]]

\* for (const [dig, c] of Object.entries(pod)) dest[dig] = (dest[dig]||0) + c
MergePod(dest, pod) ==
    [dig \in DOMAIN dest \cup DOMAIN pod |->
        (IF dig \in DOMAIN dest THEN dest[dig] ELSE 0)
        + (IF dig \in DOMAIN pod THEN pod[dig] ELSE 0)]

\* as CombineDate, but a selected date missing from the store is given the
\* empty displayResults
CombineDateKeepMissing(acc, dateStr, store) ==
    IF dateStr \notin DOMAIN store
    THEN [acc EXCEPT !.resultsByDate =
                [d \in DOMAIN acc.resultsByDate \cup {dateStr} |->
                    IF d = dateStr THEN EmptyObj ELSE acc.resultsByDate[d]]]
    ELSE LET agg == store[dateStr]
         IN  [counts |-> [p \in Prizes |->
                            MergeBucket(acc.counts[p], agg.prizesAgg[p], dateStr)],
              digitCounts |-> [p \in Prizes |->
                            [i \in 1..PrizeLen(p) |->
                                MergePod(acc.digitCounts[p][i], agg.digitAgg[p][i])]],
              resultsByDate |-> [d \in DOMAIN acc.resultsByDate \cup {dateStr} |->
                            IF d = dateStr THEN agg.results ELSE acc.resultsByDate[d]]]

\* the body of the loop over selectedDateStrs
CombineDate(acc, dateStr, store) ==
    IF dateStr \notin DOMAIN store THEN acc          \* if (!agg) continue
    ELSE LET agg == store[dateStr]
         IN  [counts |-> [p \in Prizes |->
                            MergeBucket(acc.counts[p], agg.prizesAgg[p], dateStr)],
              digitCounts |-> [p \in Prizes |->
                            [i \in 1..PrizeLen(p) |->
                                MergePod(acc.digitCounts[p][i], agg.digitAgg[p][i])]],
              resultsByDate |-> [d \in DOMAIN acc.resultsByDate \cup {dateStr} |->
                            IF d = dateStr THEN agg.results ELSE acc.resultsByDate[d]]]

RECURSIVE CombineFrom(_, _, _, _)
\* (the comparison has TLC evaluate one turn of the loop before the next:
\* its function values are lazy, and a long selection nests them deeply)
CombineFrom(acc, sel, k, store) ==
    IF k > Len(sel) THEN acc
    ELSE LET next == CombineDate(acc, sel[k], store)
         IN  IF next = next THEN CombineFrom(next, sel, k + 1, store) ELSE acc

combineAggregatesForDates(selectedDateStrs, perFileAggMapLocal) ==
    CombineFrom([counts |-> ResetCounts, digitCounts |-> ResetDigitCounts,
                 resultsByDate |-> EmptyObj],
                selectedDateStrs, 1, perFileAggMapLocal)

\* the three globals after combineAggregatesForDates(Array.from(selectedDates), store)
Merged(sel, store) ==
    LET m == combineAggregatesForDates(sel, store)
    IN  /\ counts' = m.counts
        /\ digitCounts' = m.digitCounts
        /\ resultsByDate' = m.resultsByDate

----------------------------------------------------------------------------
(* batchFetchWithProgress(urls, concurrency, onProgress)                   *)

\* Array.from({ length: Math.min(concurrency, urls.length) }, worker)
PoolSizePerUrl(k, n) == n
PoolSize(k, n) == Max(0, Min(k, n))

InFlight == Cardinality({w \in DOMAIN workers : workers[w].pc \in {"fetch", "text"}})

\* The synchronous part of the call: every worker loop runs to its first
\* await, i.e. claims the next index and issues its fetch.
RECURSIVE StartWorkers(_, _, _, _)
StartWorkers(w, n, us, st) ==
    \* st = [idx, workers, issued]
    IF w > n THEN st
    ELSE LET i == st.idx + 1      \* const i = idx++ (1-based here)
         IN  IF i > Len(us)
             THEN StartWorkers(w + 1, n, us,
                    [st EXCEPT !.idx = i,
                               !.workers = st.workers @@ (w :> [pc |-> "done", i |-> 0])])
             ELSE StartWorkers(w + 1, n, us,
                    [st EXCEPT !.idx = i,
                               !.workers = st.workers @@ (w :> [pc |-> "fetch", i |-> i]),
                               !.issued = [st.issued EXCEPT ![us[i]] = @ + 1]])

\* state of a fresh call
CallBatch(us, k, iss) ==
    StartWorkers(1, PoolSize(k, Len(us)), us,
                 [idx |-> 0, workers |-> <<>>, issued |-> iss])

\* as WorkerNext, but the loop ends after its first url
WorkerStop(w) ==
    /\ completed' = completed + 1
    /\ workers' = [workers EXCEPT ![w] = [pc |-> "done", i |-> 0]]
    /\ UNCHANGED <<idx, issued>>

\* as WorkerNext, but the cursor is read without being advanced
WorkerNextSameIndex(w) ==
    LET i == idx
    IN  /\ completed' = completed + 1
        /\ idx' = i
        /\ IF i > Len(urls)
           THEN /\ workers' = [workers EXCEPT ![w] = [pc |-> "done", i |-> 0]]
                /\ issued' = issued
           ELSE /\ workers' = [workers EXCEPT ![w] = [pc |-> "fetch", i |-> i]]
                /\ issued' = [issued EXCEPT ![urls[i]] = @ + 1]

\* finally { completed++; onProgress(...) } and the next turn of while(true)
WorkerNext(w) ==
    LET i == idx + 1
    IN  /\ completed' = completed + 1
        /\ idx' = i
        /\ IF i > Len(urls)
           THEN /\ workers' = [workers EXCEPT ![w] = [pc |-> "done", i |-> 0]]
                /\ issued' = issued
           ELSE /\ workers' = [workers EXCEPT ![w] = [pc |-> "fetch", i |-> i]]
                /\ issued' = [issued EXCEPT ![urls[i]] = @ + 1]

\* as FetchSettle, but a retrieval that fails is issued again
FetchSettleRetry ==
    \E w \in DOMAIN workers, outcome \in {"ok", "notok", "throw"} :
        /\ batch = "running"
        /\ workers[w].pc = "fetch"
        /\ IF outcome = "ok"
           THEN /\ workers' = [workers EXCEPT ![w].pc = "text"]
                /\ UNCHANGED <<idx, completed, results, issued, failed, served>>
           ELSE /\ issued' = [issued EXCEPT ![urls[workers[w].i]] = @ + 1]
                /\ failed' = failed \cup {urls[workers[w].i]}
                /\ UNCHANGED <<idx, completed, results, workers, served>>
        /\ UNCHANGED <<urls, concurrency, batch>>

\* await fetch(url) settles: resp.ok, a non-OK response, or a thrown error
FetchSettle ==
    \E w \in DOMAIN workers, outcome \in {"ok", "notok", "throw"} :
        /\ batch = "running"
        /\ workers[w].pc = "fetch"
        /\ IF outcome = "ok"
           THEN /\ workers' = [workers EXCEPT ![w].pc = "text"]
                /\ UNCHANGED <<idx, completed, results, issued, failed, served>>
           ELSE /\ WorkerNext(w)
                /\ failed' = failed \cup {urls[workers[w].i]}
                /\ UNCHANGED <<results, served>>
        /\ UNCHANGED <<urls, concurrency, batch>>

\* as TextSettle, but a text takes the place of the texts pushed before it
TextSettleLast ==
    \E w \in DOMAIN workers, text \in ServedTexts \cup {"throw"} :
        /\ batch = "running"
        /\ workers[w].pc = "text"
        /\ results' = IF text = "throw" THEN results
                      ELSE <<[dateStr |-> urls[workers[w].i], text |-> text]>>
        /\ failed' = IF text = "throw" THEN failed \cup {urls[workers[w].i]} ELSE failed
        /\ served' = IF text = "throw" THEN served
                      ELSE [d \in DOMAIN served \cup {urls[workers[w].i]} |->
                               IF d = urls[workers[w].i] THEN text ELSE served[d]]
        /\ WorkerNext(w)
        /\ UNCHANGED <<urls, concurrency, batch>>

\* await resp.text() settles
TextSettle ==
    \E w \in DOMAIN workers, text \in ServedTexts \cup {"throw"} :
        /\ batch = "running"
        /\ workers[w].pc = "text"
        /\ results' = IF text = "throw" THEN results
                      ELSE Append(results, [dateStr |-> urls[workers[w].i], text |-> text])
        /\ failed' = IF text = "throw" THEN failed \cup {urls[workers[w].i]} ELSE failed
        /\ served' = IF text = "throw" THEN served
                      ELSE [d \in DOMAIN served \cup {urls[workers[w].i]} |->
                               IF d = urls[workers[w].i] THEN text ELSE served[d]]
        /\ WorkerNext(w)
        /\ UNCHANGED <<urls, concurrency, batch>>

AllWorkersDone == \A w \in DOMAIN workers : workers[w].pc = "done"

----------------------------------------------------------------------------
(* A stand-alone call of batchFetchWithProgress on bounded inputs *)

SampleDates == <<<<2006, 12, 30>>, <<2006, 12, 31>>, <<2007, 1, 1>>, <<2007, 1, 2>>,
                 <<2007, 1, 3>>, <<2007, 1, 14>>>>

DateSet == {SampleDates[i] : i \in 1..Len(SampleDates)}

NoIssue == [d \in DateSet |-> 0]

Clock(y, m, d, h) == [y |-> y, m |-> m, d |-> d, h |-> h]

\* the pipeline's variables where a specification does not use them
IdlePipeline ==
    /\ cache = <<>> /\ pendingBlob = <<>> /\ recentToFetch = <<>> /\ olderToFetch = <<>>
    /\ gi = 0 /\ parserWorker = "none" /\ loading = FALSE
    /\ output = [renders |-> 0, dates |-> {}]
    /\ uiEvents = 0

\* the export page and the updater where a specification does not use them
IdleTools ==
    /\ prizeSelect = "" /\ showCsvDisabled = TRUE /\ csvPending = <<>>
    /\ csvOutput = [display |-> "none", lines |-> <<>>, message |-> "", prize |-> ""]
    /\ localFolder = <<>> /\ tempDir = <<>> /\ archive = <<>> /\ exitCode = <<>>

IdleUnits == fileText = <<>> /\ aggregate = <<>> /\ enumerated = <<>> /\ IdleTools

\* the controls and the clock where a specification does not use them
IdleControls ==
    /\ timeMode = "draws" /\ drawsInput = <<>> /\ yearsInput = <<>>
    /\ monthsInput = <<>> /\ fixedStart = FALSE
    /\ now = Clock(2007, 12, 30, 10)

FetchInit ==
    \E n \in 0..MaxUrls, k \in 0..MaxConcurrency :
        /\ urls = SubSeq(SampleDates, 1, n)
        /\ concurrency = k
        /\ idx = 0 /\ completed = 0 /\ results = <<>>
        /\ workers = <<>>
        /\ batch = "none"
        /\ issued = NoIssue /\ failed = {} /\ served = <<>>
        /\ perFileAggMap = EmptyObj /\ dateMap = <<>> /\ selectedDates = <<>>
        /\ counts = EmptyObj /\ digitCounts = EmptyObj /\ resultsByDate = EmptyObj
        /\ pc = "batch"
        /\ IdleControls /\ IdlePipeline /\ IdleUnits

FetchCall ==
    /\ batch = "none"
    /\ LET st == CallBatch(urls, concurrency, issued)
       IN  /\ idx' = st.idx
           /\ workers' = st.workers
           /\ issued' = st.issued
    /\ batch' = "running"
    /\ UNCHANGED <<urls, concurrency, completed, results, failed, served>>

\* await Promise.all(workers); return results
FetchReturn ==
    /\ batch = "running"
    /\ AllWorkersDone
    /\ batch' = "returned"
    /\ UNCHANGED <<urls, concurrency, idx, completed, results, workers, issued,
                   failed, served>>

restVars == <<perFileAggMap, dateMap, selectedDates, mergeVars, uiVars, now, unitVars,
              pipeVars, output, uiEvents, pc>>

FetchNext ==
    \/ FetchCall /\ UNCHANGED restVars
    \/ FetchSettle /\ UNCHANGED restVars
    \/ TextSettle /\ UNCHANGED restVars
    \/ FetchReturn /\ UNCHANGED restVars

SpecFetch == FetchInit /\ [][FetchNext]_vars

\* every retrieval issued settles, and the promise of Promise.all resolves
\* once all the worker loops have returned
FairSpecFetch ==
    /\ SpecFetch
    /\ WF_vars(FetchSettle /\ UNCHANGED restVars)
    /\ WF_vars(TextSettle /\ UNCHANGED restVars)
    /\ WF_vars(FetchReturn /\ UNCHANGED restVars)

----------------------------------------------------------------------------
(* buildCandidateUrls *)

DRAW_DAYS == <<30, 31, 1, 2, 3, 14, 15, 16, 17>>

RECURSIVE MonthCandidates(_, _, _)
\* for (const d of DRAW_DAYS), from the k-th day on
MonthCandidates(y, m, k) ==
    IF k > Len(DRAW_DAYS) THEN <<>>
    ELSE LET d == DRAW_DAYS[k]
         IN  (IF y = 2006 /\ m = 12 /\ d < 30 THEN <<>> ELSE << <<y, m, d>> >>)
             \o MonthCandidates(y, m, k + 1)

RECURSIVE CandidatesFrom(_, _, _)
\* for (y ...) for (m = 1; m <= 12; m++), from year y month m on
CandidatesFrom(y, m, lastYear) ==
    IF y > lastYear THEN <<>>
    ELSE IF m > 12 THEN CandidatesFrom(y + 1, 1, lastYear)
    ELSE MonthCandidates(y, m, 1) \o CandidatesFrom(y, m + 1, lastYear)

\* the dateStr of each candidate, today being the clock reading
buildCandidateUrls(today) == CandidatesFrom(2006, 1, today.y)

----------------------------------------------------------------------------
(* progressiveFetchAndProcess({ concurrency, recentLimit })                *)

\* the arguments of the call (30 and 150 in the code) and the parse group
\* size (50 in the code), scaled to the model
PipeConcurrency == 2
RecentLimit == 3
GroupSize == 2

\* CACHE_TTL_MS = 24 * 60 * 60 * 1000, in hours
CACHE_TTL_MS == 24

DateLess(a, b) == DateOf(a) < DateOf(b)

RECURSIVE SortByDate(_)
\* .sort((a,b) => a.date - b.date) of distinct dates
SortByDate(S) ==
    IF S = {} THEN <<>>
    ELSE LET first == CHOOSE x \in S : \A z \in S : DateOf(x) <= DateOf(z)
         IN  <<first>> \o SortByDate(S \ {first})

\* candidates.sort(localeCompare); the model keeps the last MaxCandidates
Candidates(today) ==
    LET all == SortSeq(buildCandidateUrls(today), StrLess)
    IN  JsSlice(all, Max(0, Len(all) - MaxCandidates), Len(all))

\* cached && cached.fetchedAt && (Date.now() - cached.fetchedAt) < CACHE_TTL_MS
\*        && cached.data
AcceptCachedInclusive(cached, clock) ==
    /\ cached # <<>>
    /\ cached[1].fetchedAt # 0
    /\ ClockValue(clock) - cached[1].fetchedAt <= CACHE_TTL_MS
AcceptCached(cached, clock) ==
    /\ cached # <<>>
    /\ cached[1].fetchedAt # 0
    /\ ClockValue(clock) - cached[1].fetchedAt < CACHE_TTL_MS

\* list.filter(x => !perFileAggMap.has(x.dateStr))
NotCachedAll(list, store) == list
NotCached(list, store) ==
    LET Missing(x) == x \notin DOMAIN store
    IN  SelectSeq(list, Missing)

\* the pool variables after batchFetchWithProgress(list, concurrency, ...) is called
StartBatch(list) ==
    LET st == CallBatch(list, PipeConcurrency, issued)
    IN  /\ urls' = list
        /\ concurrency' = PipeConcurrency
        /\ idx' = st.idx
        /\ workers' = st.workers
        /\ issued' = st.issued
        /\ failed' = failed /\ served' = served
        /\ completed' = 0
        /\ results' = <<>>
        /\ batch' = "running"

\* renderTables()
RenderSkipped(out, shown) == out
Render(out, shown) == [renders |-> out.renders + 1, dates |-> shown]

\* as MergeAndRender, but dateMap is left as it was
MergeAndRenderStaleMap(store) ==
    LET dm == SortByDate(DOMAIN store)
        sel == Selection(dm)
    IN  /\ dateMap' = dateMap
        /\ selectedDates' = sel
        /\ Merged(sel, store)
        /\ output' = Render(output, DOMAIN resultsByDate')

\* dateMap = ...; computeSelectedDatesFromMode(dateMap);
\* combineAggregatesForDates(Array.from(selectedDates), perFileAggMap); renderTables()
MergeAndRender(store) ==
    LET dm == SortByDate(DOMAIN store)
        sel == Selection(dm)
    IN  /\ dateMap' = dm
        /\ selectedDates' = sel
        /\ Merged(sel, store)
        /\ output' = Render(output, DOMAIN resultsByDate')

\* as CallSave, but a snapshot that was found keeps its stamp
CallSaveKeepStamp(store) ==
    /\ pendingBlob' = <<[fetchedAt |-> IF cache # <<>> THEN cache[1].fetchedAt
                                       ELSE ClockValue(now),
                         data |-> store]>>
    /\ pc' = "saveCache"

\* lines 542-544: await saveCacheBlob({ fetchedAt: Date.now(), data: plainObj })
CallSave(store) ==
    /\ pendingBlob' = <<[fetchedAt |-> ClockValue(now), data |-> store]>>
    /\ pc' = "saveCache"

\* as AfterRecentPhase, with a save of the store before the older phase
AfterRecentPhaseSaving(store, older) ==
    /\ MergeAndRender(store)
    /\ IF Len(older) > 0
       THEN /\ StartBatch(older)
            /\ pc' = "olderFetch"
            /\ pendingBlob' = <<[fetchedAt |-> ClockValue(now), data |-> store]>>
       ELSE /\ CallSave(store)
            /\ UNCHANGED poolVars

\* lines 519-528 with the store as it stands after the recent phase
AfterRecentPhase(store, older) ==
    /\ MergeAndRender(store)
    /\ IF Len(older) > 0
       THEN /\ StartBatch(older)
            /\ pc' = "olderFetch"
            /\ pendingBlob' = pendingBlob
       ELSE /\ CallSave(store)
            /\ UNCHANGED poolVars

\* lines 536-544
AfterOlderPhase(store) ==
    /\ MergeAndRender(store)
    /\ CallSave(store)

\* await loadCacheBlob() settles, and the function runs on to its next await.
\*   "openFail": openDb() rejects inside the try, loadCacheBlob returns null
\*   "readFail": the request (or the transaction) fails; the promise returned
\*               from inside the try is not awaited there, so the rejection
\*               leaves loadCacheBlob and progressiveFetchAndProcess, and the
\*               .catch of line 643 hides the loading indicator
\*   "read":     resolves with the record (undefined when there is none)
LoadCacheSettle ==
    \E outcome \in {"openFail", "readFail", "read"} :
        /\ pc = "loadCache"
        /\ IF outcome = "readFail"
           THEN /\ pc' = "failed"
                /\ loading' = FALSE
                /\ UNCHANGED <<poolVars, perFileAggMap, dateMap, selectedDates,
                               mergeVars, pendingBlob, recentToFetch, olderToFetch,
                               parserWorker, output>>
           ELSE LET cached == IF outcome = "read" THEN cache ELSE <<>>
                    store == IF AcceptCached(cached, now)
                             THEN cached[1].data ELSE perFileAggMap
                    candidates == Candidates(now)
                    total == Len(candidates)
                    recent == JsSlice(candidates, Max(0, total - RecentLimit), total)
                    older == JsSlice(candidates, 0, Max(0, total - RecentLimit))
                    rtf == NotCached(recent, store)
                    otf == NotCached(older, store)
                IN  /\ perFileAggMap' = store
                    /\ parserWorker' = "alive"
                    /\ recentToFetch' = rtf
                    /\ olderToFetch' = otf
                    /\ loading' = loading
                    /\ IF Len(rtf) > 0
                       THEN /\ StartBatch(rtf)
                            /\ pc' = "recentFetch"
                            /\ UNCHANGED <<dateMap, selectedDates, mergeVars, output,
                                           pendingBlob>>
                       ELSE AfterRecentPhase(store, otf)
        /\ UNCHANGED <<cache, gi, uiVars, now, unitVars, uiEvents>>

\* Promise.all(workers) resolves; the function runs on: the first group goes
\* to the parser worker, or (nothing fetched) the phase ends
BatchReturned ==
    /\ pc \in {"recentFetch", "olderFetch"}
    /\ batch = "running"
    /\ AllWorkersDone
    /\ IF Len(results) > 0
       THEN /\ pc' = IF pc = "recentFetch" THEN "recentParse" ELSE "olderParse"
            /\ gi' = 0
            /\ batch' = "returned"
            /\ UNCHANGED <<urls, concurrency, idx, completed, results, workers, issued, failed,
                           served,
                           perFileAggMap, dateMap, selectedDates, mergeVars,
                           pendingBlob, output>>
       ELSE IF pc = "recentFetch"
       THEN /\ AfterRecentPhase(perFileAggMap, olderToFetch)
            /\ UNCHANGED <<perFileAggMap, gi>>
       ELSE /\ AfterOlderPhase(perFileAggMap)
            /\ batch' = "returned"
            /\ UNCHANGED <<urls, concurrency, idx, completed, results, workers, issued, failed,
                           served,
                           perFileAggMap, gi>>
    /\ UNCHANGED <<cache, recentToFetch, olderToFetch, parserWorker, loading, uiVars,
                   now, unitVars, uiEvents>>

\* as SetAll, but the parsed group takes the place of the store
SetAllReplace(store, parsed) == parsed

\* for (const [k,v] of Object.entries(parsed)) perFileAggMap.set(k, v)
SetAll(store, parsed) ==
    [d \in DOMAIN store \cup DOMAIN parsed |->
        IF d \in DOMAIN parsed THEN parsed[d] ELSE store[d]]

\* the worker's 'done' message for the group at offset gi arrives
ParseDone ==
    /\ pc \in {"recentParse", "olderParse"}
    /\ LET group == JsSlice(results, gi, gi + GroupSize)
           parsed == ParseBatch(group, 1, EmptyObj)
           store == SetAll(perFileAggMap, parsed)
       IN  /\ perFileAggMap' = store
           /\ IF gi + GroupSize < Len(results)
              THEN /\ gi' = gi + GroupSize
                   /\ pc' = pc
                   /\ UNCHANGED <<poolVars, dateMap, selectedDates, mergeVars, output,
                                  pendingBlob>>
              ELSE /\ gi' = gi
                   /\ IF pc = "recentParse"
                      THEN AfterRecentPhase(store, olderToFetch)
                      ELSE AfterOlderPhase(store) /\ UNCHANGED poolVars
    /\ UNCHANGED <<cache, recentToFetch, olderToFetch, parserWorker, loading, uiVars,
                   now, unitVars, uiEvents>>

\* await saveCacheBlob(blob) settles.
\*   "openFail": openDb() rejects inside the try: ignored
\*   "ok":       the transaction completes
\*   "txFail":   the transaction aborts or fails; as in loadCacheBlob the
\*               rejection is not caught, lines 546-547 are not run and the
\*               .catch of line 643 hides the loading indicator
SaveCacheSettle ==
    \E outcome \in {"openFail", "ok", "txFail"} :
        /\ pc = "saveCache"
        /\ cache' = IF outcome = "ok" THEN pendingBlob ELSE cache
        /\ pendingBlob' = <<>>
        /\ loading' = FALSE
        /\ IF outcome = "txFail"
           THEN pc' = "failed" /\ parserWorker' = parserWorker
           ELSE pc' = "done" /\ parserWorker' = "terminated"
        /\ UNCHANGED <<poolVars, perFileAggMap, dateMap, selectedDates, mergeVars,
                       recentToFetch, olderToFetch, gi, output, uiVars, now,
                       unitVars, uiEvents>>

\* the page after the script has run to its first await: buildTabs has merged
\* and rendered the empty store, progressiveFetchAndProcess awaits the cache
PipeClock == Clock(2007, 12, 30, 10)

PipeDates == {Candidates(PipeClock)[i] : i \in 1..Len(Candidates(PipeClock))}

\* what an earlier session may have left under CACHE_KEY: nothing, today's
\* file, or today's and the oldest candidate's
Snapshots ==
    {[d \in K |-> parseTextToAggregate(d, TextOf("t1"))] :
        K \in {{}, {Candidates(PipeClock)[MaxCandidates - 1]},
               {Candidates(PipeClock)[1], Candidates(PipeClock)[MaxCandidates - 1]}}}

CacheAges == {CACHE_TTL_MS - 1, CACHE_TTL_MS, -1}

PipeInit ==
    /\ now = PipeClock
    /\ cache \in {<<>>} \cup
                 {<<[fetchedAt |-> ClockValue(PipeClock) - age, data |-> snap]>> :
                     age \in CacheAges, snap \in Snapshots}
    /\ timeMode \in {"draws", "years"} /\ fixedStart = FALSE
    /\ drawsInput = <<1>> /\ yearsInput = <<1>> /\ monthsInput = <<>>
    /\ perFileAggMap = EmptyObj
    /\ dateMap = <<>> /\ selectedDates = <<>>
    /\ counts = ResetCounts /\ digitCounts = ResetDigitCounts
    /\ resultsByDate = EmptyObj
    /\ output = [renders |-> 1, dates |-> {}]
    /\ uiEvents = 0
    /\ IdleUnits
    /\ loading = TRUE
    /\ parserWorker = "none"
    /\ pendingBlob = <<>> /\ recentToFetch = <<>> /\ olderToFetch = <<>> /\ gi = 0
    /\ urls = <<>> /\ concurrency = 0 /\ idx = 0 /\ completed = 0
    /\ results = <<>> /\ workers = <<>> /\ batch = "none"
    /\ issued = [d \in PipeDates |-> 0] /\ failed = {} /\ served = <<>>
    /\ pc = "loadCache"

----------------------------------------------------------------------------
(* wireGlobalControls: the 'input' handlers of the controls.  Each runs     *)
(* between two awaits of the pipeline, on dateMap as it stands.            *)

PipeModes == {"draws", "years", "months"}
PipeInputValues == {<<>>, <<1>>}

\* computeSelectedDatesFromMode(dateMap);
\* combineAggregatesForDates(Array.from(selectedDates), perFileAggMap); renderTables()
Recompute ==
    /\ selectedDates' = computeSelectedDatesFromMode(dateMap, timeMode', drawsInput',
                            yearsInput', monthsInput', fixedStart', now)
    /\ Merged(selectedDates', perFileAggMap)
    /\ output' = Render(output, DOMAIN resultsByDate')

uiRest == <<poolVars, perFileAggMap, dateMap, now, unitVars, pipeVars, pc>>

UiEvent == uiEvents < MaxUiEvents /\ uiEvents' = uiEvents + 1

\* timeModeRadios: another radio is checked
TimeModeInput ==
    \E mode \in PipeModes \ {timeMode} :
        /\ UiEvent
        /\ timeMode' = mode
        /\ UNCHANGED <<drawsInput, yearsInput, monthsInput, fixedStart>>
        /\ Recompute
        /\ UNCHANGED uiRest

YearsInput ==
    \E v \in PipeInputValues \ {yearsInput} :
        /\ UiEvent
        /\ yearsInput' = v
        /\ UNCHANGED <<timeMode, drawsInput, monthsInput, fixedStart>>
        /\ Recompute
        /\ UNCHANGED uiRest

MonthsInput ==
    \E v \in PipeInputValues \ {monthsInput} :
        /\ UiEvent
        /\ monthsInput' = v
        /\ UNCHANGED <<timeMode, drawsInput, yearsInput, fixedStart>>
        /\ Recompute
        /\ UNCHANGED uiRest

DrawsInput ==
    \E v \in PipeInputValues \ {drawsInput} :
        /\ UiEvent
        /\ drawsInput' = v
        /\ UNCHANGED <<timeMode, yearsInput, monthsInput, fixedStart>>
        /\ Recompute
        /\ UNCHANGED uiRest

\* fixedStartCB: if (!perFileAggMap.size) return; ...
FixedStartInput ==
    /\ UiEvent
    /\ fixedStart' = ~fixedStart
    /\ UNCHANGED <<timeMode, drawsInput, yearsInput, monthsInput>>
    /\ IF DOMAIN perFileAggMap = {}
       THEN UNCHANGED <<selectedDates, mergeVars, output>>
       ELSE Recompute
    /\ UNCHANGED uiRest

poolRest == <<perFileAggMap, dateMap, selectedDates, mergeVars, uiVars, now, unitVars,
              pipeVars, output, uiEvents, pc>>

\* the pipeline with the controls left alone
Next ==
    \/ LoadCacheSettle
    \/ FetchSettle /\ UNCHANGED poolRest
    \/ TextSettle /\ UNCHANGED poolRest
    \/ BatchReturned
    \/ ParseDone
    \/ SaveCacheSettle

Spec == PipeInit /\ [][Next]_vars

\* the pipeline with control events between its awaits, started in 'draws'
\* mode with no snapshot or a fresh one of today's file
UiInit ==
    /\ PipeInit
    /\ timeMode = "draws"
    /\ cache # <<>> =>
          /\ ClockValue(now) - cache[1].fetchedAt = CACHE_TTL_MS - 1
          /\ DOMAIN cache[1].data = {Candidates(PipeClock)[MaxCandidates - 1]}

UiNext ==
    \/ Next
    \/ TimeModeInput
    \/ YearsInput
    \/ MonthsInput
    \/ DrawsInput
    \/ FixedStartInput

SpecUi == UiInit /\ [][UiNext]_vars

----------------------------------------------------------------------------
(* A stand-alone merge on bounded inputs: the selection is the first n of  *)
(* a run of draw dates, ascending or descending; the store holds the first *)
(* m of them but one, each parsed from one of the served texts.            *)

\* the i-th date of the run, the 16th of consecutive months from 2007-01
NthDate(i) == <<2007 + ((i - 1) \div 12), ((i - 1) % 12) + 1, 16>>

MergeTexts == <<"t1", "t2", "t3">>

\* the text of the i-th date under pattern s
NthText(i, s) == MergeTexts[((i + s) % Len(MergeTexts)) + 1]

MergeStore(m, hole, s) ==
    LET keys == {NthDate(i) : i \in (1..m) \ {hole}}
        ixOf(d) == CHOOSE i \in 1..m : NthDate(i) = d
    IN  [d \in keys |-> parseTextToAggregate(d, TextOf(NthText(ixOf(d), s)))]

MergeInit ==
    \E n \in 0..MaxMergeDates, dm \in {-1, 0, 1}, hole \in {0, 1, 2},
       s \in 0..(Len(MergeTexts) - 1), desc \in BOOLEAN :
        /\ n <= SmallMerge \/ n >= MAX_DATES_RECORD - 1
        /\ n + dm >= 0
        /\ hole <= n + dm
        /\ perFileAggMap = MergeStore(n + dm, hole, s)
        /\ selectedDates = [k \in 1..n |-> NthDate(IF desc THEN n + 1 - k ELSE k)]
        /\ dateMap = <<>>
        /\ counts = ResetCounts
        /\ digitCounts = ResetDigitCounts
        /\ resultsByDate = EmptyObj
        /\ pc = "merge"
        /\ IdleControls /\ IdlePipeline /\ IdleUnits
        /\ urls = <<>> /\ concurrency = 0 /\ idx = 0 /\ completed = 0
        /\ results = <<>> /\ workers = <<>> /\ batch = "none" /\ issued = NoIssue
        /\ failed = {} /\ served = <<>>

MergeCall ==
    /\ pc = "merge"
    /\ Merged(selectedDates, perFileAggMap)
    /\ pc' = "merged"
    /\ UNCHANGED <<poolVars, perFileAggMap, dateMap, selectedDates, uiVars, now, unitVars,
                   pipeVars, output, uiEvents>>

\* a control event merges again, here over the selection in another order:
\* turned round, with its first date moved to the end, or with its first
\* two dates exchanged
RECURSIVE Reverse(_)
Reverse(q) == IF Len(q) = 0 THEN <<>> ELSE Append(Reverse(Tail(q)), Head(q))

Rotate(q) == IF Len(q) = 0 THEN q ELSE Append(Tail(q), Head(q))

SwapFirst(q) == IF Len(q) < 2 THEN q ELSE <<q[2], q[1]>> \o SubSeq(q, 3, Len(q))

Reorderings(q) == {Reverse(q), Rotate(q), SwapFirst(q)}

MergeAgain ==
    /\ pc = "merged"
    /\ selectedDates' \in Reorderings(selectedDates)
    /\ Merged(selectedDates', perFileAggMap)
    /\ pc' = "remerged"
    /\ UNCHANGED <<poolVars, perFileAggMap, dateMap, uiVars, now, unitVars,
                   pipeVars, output, uiEvents>>

MergeNext == MergeCall \/ MergeAgain

SpecMerge == MergeInit /\ [][MergeNext]_vars

\* the per-file count of value val of prize p on date d (0 when absent)
FileCount(store, d, p, val) ==
    IF d \in DOMAIN store /\ val \in DOMAIN store[d].prizesAgg[p]
    THEN store[d].prizesAgg[p][val] ELSE 0

RECURSIVE SumOver(_, _, _, _, _)
SumOver(sel, k, store, p, val) ==
    IF k > Len(sel) THEN 0
    ELSE FileCount(store, sel[k], p, val) + SumOver(sel, k + 1, store, p, val)

AllValues(store) ==
    UNION {DOMAIN store[d].prizesAgg[p] : d \in DOMAIN store, p \in Prizes}

\* C9: after a merge the count of every value of every category is the sum
\* of its per-file counts over the selected dates present in the store, also
\* beyond the contributing-date cap; values with sum 0 have no bucket.
C9_CountIsSum ==
    pc \in {"merged", "remerged"} =>
        \A p \in Prizes : \A val \in AllValues(perFileAggMap) :
            LET sum == SumOver(selectedDates, 1, perFileAggMap, p, val)
            IN  IF val \in DOMAIN counts[p]
                THEN counts[p][val].count = sum /\ sum > 0
                ELSE sum = 0

\* a value whose count went on growing after its date list was full, from a
\* selection with a date missing from the store and a file counting it twice
C9_Witness ==
    /\ pc = "remerged"
    /\ \E p \in Prizes : \E val \in DOMAIN counts[p] :
          /\ Len(counts[p][val].dates) = MAX_DATES_RECORD
          /\ counts[p][val].count > MAX_DATES_RECORD + 1
    /\ \E k \in 1..Len(selectedDates) : selectedDates[k] \notin DOMAIN perFileAggMap
    /\ \E d \in DOMAIN perFileAggMap : \E k \in 1..Len(selectedDates) :
          /\ selectedDates[k] = d
          /\ \E p \in Prizes : \E val \in DOMAIN perFileAggMap[d].prizesAgg[p] :
                perFileAggMap[d].prizesAgg[p][val] > 1


\* dates of the selection that are in the store and hold value val of prize p
Contributors(p, val) ==
    {d \in SeqSet(selectedDates) \cap DOMAIN perFileAggMap :
        val \in DOMAIN perFileAggMap[d].prizesAgg[p]}

\* C10: after any merge the contributing-dates list of every value has at
\* most MAX_DATES_RECORD entries.
C10_DatesCapped ==
    \A p \in Prizes : \A val \in DOMAIN counts[p] :
        Len(counts[p][val].dates) <= MAX_DATES_RECORD

\* a merge and a re-merge over more dates holding one value than the cap
C10_Witness ==
    /\ pc = "remerged"
    /\ \E val \in DOMAIN counts["TWO"] :
          /\ Cardinality(Contributors("TWO", val)) > MAX_DATES_RECORD
          /\ Len(counts["TWO"][val].dates) = MAX_DATES_RECORD

\* the dates of the selection, in its order, that are in the store and hold
\* value val of prize p
ContributorsInOrder(p, val) ==
    LET Holds(d) == d \in Contributors(p, val)
    IN  SelectSeq(selectedDates, Holds)

\* C24: merging the same dates in another order leaves every count and every
\* digit frequency as it was; after any merge the date list of a value is the
\* first dates of the selection, in its order and up to the cap, that hold
\* the value.
C24_OrderOnlyMovesDates ==
    /\ [][(pc = "merged" /\ pc' = "remerged") =>
             /\ digitCounts' = digitCounts
             /\ \A p \in Prizes :
                   /\ DOMAIN counts'[p] = DOMAIN counts[p]
                   /\ \A val \in DOMAIN counts[p] :
                         counts'[p][val].count = counts[p][val].count]_vars
    /\ [](pc \in {"merged", "remerged"} =>
             \A p \in Prizes : \A val \in DOMAIN counts[p] :
                 LET holders == ContributorsInOrder(p, val)
                 IN  counts[p][val].dates =
                         SubSeq(holders, 1, Min(Len(holders), MAX_DATES_RECORD)))

\* a merge in another order of more dates holding a value than the cap: the
\* list of the value is full and starts with a date that is not the earliest
C24_Witness ==
    /\ pc = "remerged"
    /\ \E val \in DOMAIN counts["TWO"] :
          /\ Cardinality(Contributors("TWO", val)) > MAX_DATES_RECORD
          /\ Len(counts["TWO"][val].dates) = MAX_DATES_RECORD
          /\ \E d \in Contributors("TWO", val) :
                StrLess(d, counts["TWO"][val].dates[1])
          /\ counts["TWO"][val].count > MAX_DATES_RECORD

\* C25: after any merge no date list of a value holds a date twice.
C25_DateListedOnce ==
    pc \in {"merged", "remerged"} =>
        \A p \in Prizes : \A val \in DOMAIN counts[p] :
            Cardinality(SeqSet(counts[p][val].dates)) = Len(counts[p][val].dates)

\* the list of a value holds a date whose file has the value twice, and
\* another date after it
C25_Witness ==
    /\ pc \in {"merged", "remerged"}
    /\ \E p \in Prizes : \E val \in DOMAIN counts[p] :
          \E k \in 1..Len(counts[p][val].dates) :
              /\ FileCount(perFileAggMap, counts[p][val].dates[k], p, val) > 1
              /\ k < Len(counts[p][val].dates)

\* C26: a merge leaves the store as it was, and after it resultsByDate maps
\* exactly the selected dates that are in the store, each to the results of
\* its aggregate.
C26_MergeLeavesStore ==
    /\ [][perFileAggMap' = perFileAggMap]_vars
    /\ [](pc \in {"merged", "remerged"} =>
             /\ DOMAIN resultsByDate = SeqSet(selectedDates) \cap DOMAIN perFileAggMap
             /\ \A d \in DOMAIN resultsByDate :
                   resultsByDate[d] = perFileAggMap[d].results)

\* a merge of a selection with a date the store lacks, on a store with a
\* date the selection lacks
C26_Witness ==
    /\ pc \in {"merged", "remerged"}
    /\ \E k \in 1..Len(selectedDates) : selectedDates[k] \notin DOMAIN perFileAggMap
    /\ \E d \in DOMAIN perFileAggMap : d \notin SeqSet(selectedDates)
    /\ Cardinality(DOMAIN resultsByDate) > 1

----------------------------------------------------------------------------
(* A stand-alone call of computeSelectedDatesFromMode on bounded inputs:   *)
(* the known dates are any of the first MaxSelDates dates below, sorted    *)
(* ascending as dateMap is; one control holds the window size.             *)

MaxSelDates == 6

SelDates == <<<<2006, 12, 16>>, <<2006, 12, 30>>, <<2007, 3, 1>>, <<2007, 12, 30>>,
              <<2008, 1, 16>>, <<2008, 3, 1>>, <<2007, 3, 2>>, <<2007, 1, 16>>>>

SelUniverse == {SelDates[i] : i \in 1..Min(MaxSelDates, Len(SelDates))}

SelClocks == {Clock(2007, 12, 30, 10), Clock(2008, 1, 16, 0), Clock(2008, 2, 29, 12)}

InputValues == {<<>>, <<-1>>, <<0>>, <<1>>, <<2>>, <<3>>}


SelInit ==
    \E known \in SUBSET SelUniverse, mode \in {"draws", "years", "months"},
       v \in InputValues, anchored \in BOOLEAN, clock \in SelClocks :
        /\ dateMap = SortByDate(known)
        /\ timeMode = mode
        /\ drawsInput = IF mode = "draws" THEN v ELSE <<>>
        /\ yearsInput = IF mode = "years" THEN v ELSE <<>>
        /\ monthsInput = IF mode = "months" THEN v ELSE <<>>
        /\ fixedStart = anchored
        /\ now = clock
        /\ selectedDates = <<>>
        /\ perFileAggMap = EmptyObj
        /\ counts = ResetCounts /\ digitCounts = ResetDigitCounts
        /\ resultsByDate = EmptyObj
        /\ pc = "select"
        /\ IdlePipeline /\ IdleUnits
        /\ urls = <<>> /\ concurrency = 0 /\ idx = 0 /\ completed = 0
        /\ results = <<>> /\ workers = <<>> /\ batch = "none" /\ issued = NoIssue
        /\ failed = {} /\ served = <<>>

SelCall ==
    /\ pc = "select"
    /\ selectedDates' = Selection(dateMap)
    /\ pc' = "selected"
    /\ UNCHANGED <<poolVars, perFileAggMap, dateMap, mergeVars, uiVars, now,
                   unitVars, pipeVars, output, uiEvents>>

SelNext == SelCall

SpecSel == SelInit /\ [][SelNext]_vars

\* the value parseInt(...) || 0 of the years or months field in use
WindowSize == OrDefault(IF timeMode = "years" THEN yearsInput ELSE monthsInput, 0)

\* C6: anchored, years or months mode, window size 0 or unset: every known
\* date at or after the epoch is selected.
C6_AnchoredZeroUnbounded ==
    (pc = "selected" /\ fixedStart /\ timeMode \in {"years", "months"}
        /\ (IF timeMode = "years" THEN yearsInput ELSE monthsInput) \in {<<>>, <<0>>})
    => SeqSet(selectedDates) = {d \in SeqSet(dateMap) : DateOf(d) >= FIXED_START}


KnownDates == SeqSet(dateMap)

\* the k latest of a set of dates
Latest(S, k) == {d \in S : Cardinality({e \in S : DateOf(e) > DateOf(d)}) < k}
\* the k earliest
Earliest(S, k) == {d \in S : Cardinality({e \in S : DateOf(e) < DateOf(d)}) < k}

Ascending(q) == \A i, j \in 1..Len(q) : i < j => DateOf(q[i]) < DateOf(q[j])

\* C7: with anchoring disabled no selected date is later than now: recent-N
\* gives the N most recent known dates at or before now, a years/months
\* window of size w > 0 the known dates d with now - w <= d <= now.
C7_UnanchoredUpToNow ==
    (pc # "select" /\ ~fixedStart) =>
        LET nowV == ClockValue(now)
            past == {d \in KnownDates : DateOf(d) <= nowV}
        IN  /\ \A d \in SeqSet(selectedDates) : DateOf(d) <= nowV
            /\ (timeMode = "draws" /\ OrDefault(drawsInput, 1) >= 1)
                  => SeqSet(selectedDates) = Latest(past, OrDefault(drawsInput, 1))
            /\ (timeMode \in {"years", "months"} /\ WindowSize > 0)
                  => SeqSet(selectedDates) =
                        {d \in past : DateOf(d) >= TrailingCut(timeMode, WindowSize, now)}

\* C8: recent-N with N >= 1 over the ascending known dates: unanchored, the
\* min(N, known) latest dates; anchored, the first min(N, eligible) known
\* dates at or after the epoch; in ascending order either way.
C8_RecentN ==
    (pc = "selected" /\ timeMode = "draws" /\ OrDefault(drawsInput, 1) >= 1) =>
        LET N == OrDefault(drawsInput, 1)
            eligible == {d \in KnownDates : DateOf(d) >= FIXED_START}
        IN  /\ Ascending(selectedDates)
            /\ IF fixedStart
               THEN /\ Len(selectedDates) = Min(N, Cardinality(eligible))
                    /\ SeqSet(selectedDates) = Earliest(eligible, N)
               ELSE /\ Len(selectedDates) = Min(N, Cardinality(KnownDates))
                    /\ SeqSet(selectedDates) = Latest(KnownDates, N)

\* N = 2 draws taken out of more known dates, some before the epoch
C8_Witness ==
    /\ pc = "selected" /\ timeMode = "draws" /\ drawsInput = <<2>>
    /\ Len(selectedDates) = 2
    /\ Len(dateMap) > 3
    /\ \E d \in KnownDates : DateOf(d) < FIXED_START

----------------------------------------------------------------------------
(* Claims about the pipeline, under Spec *)

\* C2: no persistence failure makes the pipeline reject.
C2_CacheFailureNotFatal == pc # "failed"

SnapshotFresh == cache # <<>> /\ ClockValue(now) - cache[1].fetchedAt < CACHE_TTL_MS

\* C3: when the cache check is over, the store holds the snapshot only if
\* now - fetchedAt < 24h; otherwise it is empty and the two fetch lists are
\* all the candidates.
C3_FreshnessGate ==
    [][(pc = "loadCache" /\ pc' \notin {"loadCache", "failed"}) =>
         /\ (DOMAIN perFileAggMap' # {}) => (SnapshotFresh /\ perFileAggMap' = cache[1].data)
         /\ (~SnapshotFresh) =>
               /\ DOMAIN perFileAggMap' = {}
               /\ recentToFetch' \o olderToFetch' =
                     JsSlice(Candidates(now), Max(0, MaxCandidates - RecentLimit),
                             MaxCandidates)
                     \o JsSlice(Candidates(now), 0, Max(0, MaxCandidates - RecentLimit))
      ]_vars

\* a snapshot exactly 24 hours old, holding dates, was passed over
C3_Witness ==
    /\ pc = "recentFetch"
    /\ cache # <<>> /\ ClockValue(now) - cache[1].fetchedAt = CACHE_TTL_MS
    /\ DOMAIN cache[1].data # {}
    /\ DOMAIN perFileAggMap = {}
    /\ Len(urls) = RecentLimit

OlderIssued == \E d \in SeqSet(olderToFetch) : issued[d] > 0

\* the globals are those of a merge over the store as it stands, and drawn
MergedAndRendered ==
    /\ dateMap = SortByDate(DOMAIN perFileAggMap)
    /\ selectedDates = Selection(dateMap)
    /\ counts = combineAggregatesForDates(selectedDates, perFileAggMap).counts
    /\ output.dates = SeqSet(selectedDates)

\* C5: an older retrieval is issued only after every recent retrieval has
\* settled and its results are in the store, merged and rendered; after the
\* older phase the merge and the render are those of the enlarged store.
C5_RecentFirst ==
    /\ OlderIssued =>
          /\ \A d \in SeqSet(recentToFetch) : issued[d] = 1
          /\ output.renders >= 2
          /\ pc = "olderFetch" => MergedAndRendered
    /\ (pc \in {"saveCache", "done"}) =>
          /\ MergedAndRendered
          /\ OlderIssued => output.renders >= 3

\* both phases fetched a file, a control event came in between, and the last
\* render shows an older date
C5_Witness ==
    /\ pc = "done"
    /\ output.renders > 3 /\ uiEvents > 0
    /\ \E d \in SeqSet(recentToFetch) : d \in DOMAIN perFileAggMap
    /\ \E d \in SeqSet(olderToFetch) : d \in output.dates


ResultDates == {results[k].dateStr : k \in 1..Len(results)}

\* C15: a date whose retrieval failed was requested once, is in no batch
\* result and not in the store; when the workers of a batch are done every
\* url of the batch has been requested; the step on which a retrieval fails
\* changes neither the results nor the course of the batch or the pipeline.
C15_FailedRetrievalSilent ==
    /\ [](\A d \in failed : /\ issued[d] = 1
                            /\ d \notin ResultDates
                            /\ d \notin DOMAIN perFileAggMap)
    /\ []((batch = "running" /\ AllWorkersDone) =>
              \A k \in 1..Len(urls) : issued[urls[k]] = 1)
    /\ [][failed' # failed =>
              /\ results' = results /\ perFileAggMap' = perFileAggMap
              /\ pc' = pc /\ batch' = batch
              /\ completed' = completed + 1
              /\ \E w \in DOMAIN workers :
                    \A v \in DOMAIN workers \ {w} : workers'[v] = workers[v]
       ]_vars

\* a recent retrieval failed, another file of the same batch is in the store
\* and the pipeline is at its end
C15_Witness ==
    /\ pc = "done"
    /\ \E d \in failed : d \in SeqSet(recentToFetch)
    /\ \E e \in SeqSet(recentToFetch) : e \in DOMAIN perFileAggMap /\ issued[e] = 1


Parsing == pc \in {"recentParse", "olderParse"}

\* C16: when a group comes back from the parser worker, every file of it
\* that parses is in the store with its aggregate, every file of it that
\* throws is absent from the store, and the pipeline goes on.
C16_ParseFailureSkipsFile ==
    [][(Parsing /\ (gi' # gi \/ pc' # pc)) =>
          LET group == JsSlice(results, gi, gi + GroupSize)
          IN  /\ \A k \in 1..Len(group) :
                    LET a == parseTextToAggregate(group[k].dateStr, TextOf(group[k].text))
                    IN  IF a.threw
                        THEN group[k].dateStr \notin DOMAIN perFileAggMap'
                        ELSE /\ group[k].dateStr \in DOMAIN perFileAggMap'
                             /\ perFileAggMap'[group[k].dateStr] = a
              /\ pc' \in {"recentParse", "olderParse", "olderFetch", "saveCache"}
      ]_vars

\* the pipeline has ended after a group whose first file threw and whose
\* second file is in the store
C16_Witness ==
    /\ pc = "done"
    /\ \E k \in 1..Len(results) :
          /\ k % GroupSize = 1 /\ k < Len(results) /\ GroupSize > 1
          /\ results[k].text = "bad" /\ results[k + 1].text # "bad"
          /\ results[k].dateStr \notin DOMAIN perFileAggMap
          /\ results[k + 1].dateStr \in DOMAIN perFileAggMap


InFetchPhase == pc \in {"recentFetch", "recentParse", "olderFetch", "olderParse"}

\* the store as it stands has been handed to saveCacheBlob or is in the cache
StoreSaved ==
    \/ pendingBlob # <<>> /\ pendingBlob[1].data = perFileAggMap
    \/ cache # <<>> /\ cache[1].data = perFileAggMap

\* C18 as stated: a save follows the recent phase, before the older phase,
\* and another follows the older phase.
C18_SaveAfterEachPhase ==
    /\ (pc = "olderFetch" /\ DOMAIN perFileAggMap # {}) => StoreSaved
    /\ pc = "saveCache" => StoreSaved

\* C18 amended: the store is saved once, after the last fetch phase: no blob
\* is handed to saveCacheBlob and the cache is not written during a fetch
\* phase; when the phases are over the store as it stands is handed over,
\* stamped with the time of the call.
C18_SavedOnceAtEnd ==
    /\ [](InFetchPhase => pendingBlob = <<>>)
    /\ [](pc = "saveCache" =>
             /\ pendingBlob = <<[fetchedAt |-> ClockValue(now), data |-> perFileAggMap]>>
             /\ \A d \in SeqSet(recentToFetch) \cup SeqSet(olderToFetch) : issued[d] = 1)
    /\ [][cache' # cache =>
              /\ pc = "saveCache" /\ pc' = "done"
              /\ cache' = pendingBlob
       ]_vars

\* both phases put a file in the store and the one save at the end wrote
\* the cache
C18_Witness ==
    /\ pc = "done"
    /\ cache # <<>> /\ cache[1].data = perFileAggMap
    /\ cache[1].fetchedAt = ClockValue(now)
    /\ \E d \in SeqSet(recentToFetch) : d \in DOMAIN perFileAggMap
    /\ \E d \in SeqSet(olderToFetch) : d \in DOMAIN perFileAggMap


\* C19: no step of the session (cache load, fetch, parse result, control
\* event, save) takes a date out of the store.
C19_StoreOnlyGrows ==
    [][DOMAIN perFileAggMap \subseteq DOMAIN perFileAggMap']_vars

\* at the end the store holds a date of the snapshot and a fetched date of
\* each phase, and a control event was handled on the way
C19_Witness ==
    /\ pc = "done" /\ uiEvents > 0
    /\ \E d \in DOMAIN perFileAggMap : issued[d] = 0
    /\ \E d \in SeqSet(recentToFetch) : d \in DOMAIN perFileAggMap
    /\ \E d \in SeqSet(olderToFetch) : d \in DOMAIN perFileAggMap

\* the store as the outcomes of the retrievals determine it: the aggregates
\* of the accepted snapshot whose dates were not requested, and the parse of
\* every text a retrieval gave, but for the texts the parser throws on
OutcomeStore ==
    LET base == IF AcceptCached(cache, now) THEN cache[1].data ELSE EmptyObj
        kept == {d \in DOMAIN base : issued[d] = 0}
        good == {d \in DOMAIN served :
                    ~parseTextToAggregate(d, TextOf(served[d])).threw}
    IN  [d \in kept \cup good |->
            IF d \in good THEN parseTextToAggregate(d, TextOf(served[d]))
            ELSE base[d]]

\* C22: when the last phase has ended, the store and the merged output are
\* what the outcome of each date's retrieval determines, whatever the order
\* in which the retrievals completed, and they stay so to the end of the run.
C22_CompletionOrderIrrelevant ==
    /\ [](pc = "saveCache" =>
             LET m == combineAggregatesForDates(
                          Selection(SortByDate(DOMAIN OutcomeStore)), OutcomeStore)
             IN  /\ perFileAggMap = OutcomeStore
                 /\ counts = m.counts
                 /\ digitCounts = m.digitCounts
                 /\ resultsByDate = m.resultsByDate)
    /\ [][pc = "saveCache" =>
             /\ perFileAggMap' = perFileAggMap
             /\ mergeVars' = mergeVars]_vars

\* the run has ended after two files of one batch completed in the reverse
\* order of their dates, and both are in the store
C22_Witness ==
    /\ pc = "done"
    /\ \E i, j \in 1..Len(results) :
          /\ i < j
          /\ StrLess(results[j].dateStr, results[i].dateStr)
          /\ {results[i].dateStr, results[j].dateStr} \subseteq DOMAIN perFileAggMap
    /\ resultsByDate # EmptyObj

\* C23: no date is requested twice: the worker loops at work hold different
\* indices of the list, the two fetch lists have no date in common and none
\* twice, and over the whole run every date is requested at most once.
C23_NoDateFetchedTwice ==
    /\ \A d \in DOMAIN issued : issued[d] <= 1
    /\ \A v, w \in DOMAIN workers :
          (v # w /\ workers[v].pc # "done" /\ workers[w].pc # "done")
              => workers[v].i # workers[w].i
    /\ SeqSet(recentToFetch) \cap SeqSet(olderToFetch) = {}
    /\ Cardinality(SeqSet(recentToFetch)) = Len(recentToFetch)
    /\ Cardinality(SeqSet(olderToFetch)) = Len(olderToFetch)

\* a retrieval of the older phase is in flight after the recent phase, of
\* more dates than worker loops, has stored two of its dates
C23_Witness ==
    /\ pc = "olderFetch" /\ InFlight >= 1
    /\ Len(recentToFetch) > concurrency
    /\ \E d, e \in SeqSet(recentToFetch) :
          /\ d # e
          /\ {d, e} \subseteq DOMAIN perFileAggMap
          /\ issued[d] = 1 /\ issued[e] = 1

\* C27: between any two steps of the page the selected dates are dates of
\* dateMap and the dates of dateMap are keys of the store; when the run has
\* ended the dates of dateMap are the keys of the store.
C27_SelectionWithinMapWithinStore ==
    /\ SeqSet(selectedDates) \subseteq SeqSet(dateMap)
    /\ SeqSet(dateMap) \subseteq DOMAIN perFileAggMap
    /\ pc = "done" => SeqSet(dateMap) = DOMAIN perFileAggMap

\* a control event was handled and the older retrievals are under way: some
\* but not all dates of dateMap are selected
C27_Witness ==
    /\ pc = "olderFetch" /\ InFlight > 0
    /\ uiEvents > 0
    /\ Len(selectedDates) > 0 /\ Len(selectedDates) < Len(dateMap)

\* C28: a save that succeeds puts the whole store under one stamp, the time
\* of the save: the aggregates kept from the snapshot found at the start and
\* not requested again are in the new snapshot unchanged, and the new
\* snapshot is accepted for the 24 hours that follow.
C28_SaveStampsWholeSnapshot ==
    [][cache' # cache =>
          /\ cache'[1].fetchedAt = ClockValue(now)
          /\ cache'[1].data = perFileAggMap
          /\ \A d \in DOMAIN perFileAggMap :
                issued[d] = 0 =>
                    /\ cache # <<>> /\ d \in DOMAIN cache[1].data
                    /\ cache'[1].data[d] = cache[1].data[d]
          /\ AcceptCached(cache', now)
          /\ (ClockValue(now) + CACHE_TTL_MS - 1) - cache'[1].fetchedAt < CACHE_TTL_MS]_vars

\* the run has ended with a snapshot stamped now that holds an aggregate
\* kept from the snapshot found at the start and an aggregate fetched in
\* this run
C28_Witness ==
    /\ pc = "done" /\ cache # <<>>
    /\ cache[1].fetchedAt = ClockValue(now)
    /\ \E d \in DOMAIN cache[1].data : issued[d] = 0
    /\ \E d \in DOMAIN cache[1].data : issued[d] = 1

----------------------------------------------------------------------------
\* C1: at every moment of a batch the number of retrievals issued and not
\* yet settled is at most min(concurrency, number of urls).
C1_InFlightBounded == InFlight <= Min(concurrency, Len(urls))

\* the pool is saturated below the number of urls after a retrieval settled
C1_Witness ==
    /\ batch = "running"
    /\ concurrency < Len(urls)
    /\ completed > 0
    /\ InFlight = concurrency
    /\ concurrency > 0



\* C20: a batch that has started returns, and when a batch with at least
\* one worker loop (the pipeline passes concurrency = 30) has returned,
\* every url has been requested exactly once and completed is the number
\* of urls.
C20_BatchCompletes ==
    /\ (batch = "running") ~> (batch = "returned")
    /\ [](batch = "returned" /\ concurrency > 0 =>
             /\ completed = Len(urls)
             /\ \A k \in 1..Len(urls) : issued[urls[k]] = 1)

\* a batch of more urls than worker loops has returned, with a retrieval
\* that failed and one that gave a text
C20_Witness ==
    /\ batch = "returned"
    /\ concurrency > 0 /\ concurrency < Len(urls)
    /\ failed # {} /\ Len(results) > 0

----------------------------------------------------------------------------
(* A stand-alone parse: parseTextToAggregate on every text of a header     *)
(* line and up to MaxLines lines drawn from ParseLinePool.                 *)

MaxLines == 3

ParseDate == <<2007, 1, 16>>

\* a well-formed line of each length, a two-value line, a token shorter and
\* a token longer than the length of its prize, a blank line, a tag the
\* program does not know and a tag that names an inherited member
ParseLinePool ==
    {Line("FIRST", << <<"1", "2", "3", "4", "5", "6">> >>),
     Line("TWO", << <<"1", "2">>, <<"3", "4">> >>),
     Line("TWO", << <<"5">> >>),
     Line("THREE_LAST", << <<"9", "3", "1", "2">> >>),
     Line("", <<>>),
     Line("BONUS", << <<"9", "9">> >>),
     Line("constructor", << <<"7">> >>)}

ParseTexts ==
    UNION {{<<HeaderLine>> \o body : body \in [1..n -> ParseLinePool]} : n \in 0..MaxLines}

ParseInit ==
    /\ fileText \in ParseTexts
    /\ aggregate = <<>> /\ enumerated = <<>> /\ IdleTools
    /\ pc = "parse"
    /\ perFileAggMap = EmptyObj /\ dateMap = <<>> /\ selectedDates = <<>>
    /\ counts = ResetCounts /\ digitCounts = ResetDigitCounts
    /\ resultsByDate = EmptyObj
    /\ IdleControls /\ IdlePipeline
    /\ urls = <<>> /\ concurrency = 0 /\ idx = 0 /\ completed = 0
    /\ results = <<>> /\ workers = <<>> /\ batch = "none" /\ issued = NoIssue
    /\ failed = {} /\ served = <<>>

\* parseTextToAggregate(dateStr, text) returns or throws
ParseCall ==
    /\ pc = "parse"
    /\ aggregate' = <<parseTextToAggregate(ParseDate, fileText)>>
    /\ pc' = "parsed"
    /\ UNCHANGED <<poolVars, perFileAggMap, dateMap, selectedDates, mergeVars, uiVars,
                   now, fileText, enumerated, toolVars, pipeVars, output, uiEvents>>

ParseNext == ParseCall

SpecParse == ParseInit /\ [][ParseNext]_vars

Returned == pc = "parsed" /\ ~aggregate[1].threw

\* C11: every value recorded for a prize has the length of the prize, and
\* the prize has that many digit maps.
C11_ValueLength ==
    Returned =>
        \A p \in Prizes :
            /\ \A val \in DOMAIN aggregate[1].prizesAgg[p] : Len(val) = PrizeLen(p)
            /\ Len(aggregate[1].digitAgg[p]) = PrizeLen(p)


RECURSIVE AcceptedValues(_, _, _)
\* the values of the lines tagged tag from line k on, each cut to the length
\* of the prize, in the order of the text
AcceptedValues(lines, k, tag) ==
    IF k > Len(lines) THEN <<>>
    ELSE (IF lines[k].tag = tag
          THEN [j \in 1..Len(lines[k].nums) |-> SliceLast(lines[k].nums[j], PrizeLen(tag))]
          ELSE <<>>) \o AcceptedValues(lines, k + 1, tag)

\* C12: for every prize with a line in the text, results[tag] is the joined
\* list of all the accepted values of the prize, in the order of the text.
C12_DisplayListsAll ==
    Returned =>
        \A tag \in Prizes :
            (\E k \in 2..Len(fileText) : fileText[k].tag = tag) =>
                /\ tag \in DOMAIN aggregate[1].results
                /\ aggregate[1].results[tag] = Join(AcceptedValues(fileText, 2, tag))



\* the text without its k-th line
WithoutLine(lines, k) == SubSeq(lines, 1, k - 1) \o SubSeq(lines, k + 1, Len(lines))

\* C17: a line whose tag is not a prize changes nothing: the call gives what
\* it gives on the text without that line.
C17_UnknownTagSkipped ==
    pc = "parsed" =>
        \A k \in 2..Len(fileText) :
            fileText[k].tag \notin Prizes =>
                aggregate[1] = parseTextToAggregate(ParseDate, WithoutLine(fileText, k))

----------------------------------------------------------------------------
(* A stand-alone enumeration: buildCandidateUrls() on the days 2, 16 and   *)
(* 30 of every month from the epoch to the end of the last year modelled.  *)

MaxEnumYears == 3

EnumClocks ==
    {c \in {Clock(y, m, d, 10) : y \in 2006..(2006 + MaxEnumYears - 1), m \in 1..12,
                                  d \in {2, 16, 30}} :
        /\ c.d <= MonthLengths(c.y)[c.m]
        /\ ClockValue(c) >= FIXED_START}

EnumInit ==
    /\ now \in EnumClocks
    /\ enumerated = <<>> /\ fileText = <<>> /\ aggregate = <<>> /\ IdleTools
    /\ pc = "enumerate"
    /\ timeMode = "draws" /\ drawsInput = <<>> /\ yearsInput = <<>>
    /\ monthsInput = <<>> /\ fixedStart = FALSE
    /\ perFileAggMap = EmptyObj /\ dateMap = <<>> /\ selectedDates = <<>>
    /\ counts = ResetCounts /\ digitCounts = ResetDigitCounts
    /\ resultsByDate = EmptyObj
    /\ IdlePipeline
    /\ urls = <<>> /\ concurrency = 0 /\ idx = 0 /\ completed = 0
    /\ results = <<>> /\ workers = <<>> /\ batch = "none" /\ issued = NoIssue
    /\ failed = {} /\ served = <<>>

\* buildCandidateUrls() returns
EnumCall ==
    /\ pc = "enumerate"
    /\ enumerated' = <<buildCandidateUrls(now)>>
    /\ pc' = "enumerated"
    /\ UNCHANGED <<poolVars, perFileAggMap, dateMap, selectedDates, mergeVars, uiVars,
                   now, fileText, aggregate, toolVars, pipeVars, output, uiEvents>>

EnumNext == EnumCall

SpecEnum == EnumInit /\ [][EnumNext]_vars

Epoch == <<2006, 12, 30>>

\* C13: no candidate of the enumerator is dated before 2006-12-30.
C13_NoneBeforeEpoch ==
    pc = "enumerated" =>
        \A i \in 1..Len(enumerated[1]) : ~StrLess(enumerated[1][i], Epoch)


\* the calendar dates from the epoch to today on an allow-listed day
DrawDates(today) ==
    {date \in {<<y, m, DRAW_DAYS[k]>> : y \in 2006..today.y, m \in 1..12,
                                        k \in 1..Len(DRAW_DAYS)} :
        /\ date[3] <= MonthLengths(date[1])[date[2]]
        /\ ~StrLess(date, Epoch)
        /\ ~StrLess(<<today.y, today.m, today.d>>, date)}

\* C14: the enumerator returns exactly the allow-listed calendar dates from
\* the epoch to today, each once, in ascending order.
C14_ExactlyDrawDates ==
    pc = "enumerated" =>
        /\ SeqSet(enumerated[1]) = DrawDates(now)
        /\ \A i, j \in 1..Len(enumerated[1]) :
              i < j => StrLess(enumerated[1][i], enumerated[1][j])

----------------------------------------------------------------------------
(* The CSV export page (src/unnamed/part_001) on what the analyzer page    *)
(* left under CACHE_KEY.  A line `${num},${dateStr}` of the export is the  *)
(* record [num, dateStr]; a text of such lines is lines.join('\n').        *)

MaxCsvPending == 2

CsvClock == Clock(2007, 2, 3, 10)

CsvDates == {<<2006, 12, 30>>, <<2007, 1, 16>>}

CsvTexts == {"t1", "t2", "t4"}

\* the prizes offered by prizeSelect that the model chooses from
CsvPrizes == {"TWO", "SECOND"}

\* the stores the analyzer page may have saved: any of the dates, each
\* parsed from one of the texts
CsvSnapshots ==
    UNION {{[d \in K |-> parseTextToAggregate(d, TextOf(f[d]))] : f \in [K -> CsvTexts]} :
              K \in SUBSET CsvDates}

NoDataText == "No data available for this prize type."

RECURSIVE SplitComma(_, _)
\* numbersStr.split(','), cur being the piece read so far
SplitComma(str, cur) ==
    IF Len(str) = 0 THEN <<cur>>
    ELSE IF Head(str) = "," THEN <<cur>> \o SplitComma(Tail(str), <<>>)
    ELSE SplitComma(Tail(str), Append(cur, Head(str)))

RECURSIVE TrimStart(_)
TrimStart(n) == IF Len(n) > 0 /\ Head(n) = " " THEN TrimStart(Tail(n)) ELSE n

RECURSIVE TrimEnd(_)
TrimEnd(n) ==
    IF Len(n) > 0 /\ n[Len(n)] = " " THEN TrimEnd(SubSeq(n, 1, Len(n) - 1)) ELSE n

\* n.trim()
Trim(n) == TrimEnd(TrimStart(n))

\* numbersStr.split(',').map(n => n.trim()).filter(n => n)
CsvNumbers(numbersStr) ==
    LET pieces == SplitComma(numbersStr, <<>>)
        NonEmpty(n) == Len(n) > 0
    IN  SelectSeq([k \in 1..Len(pieces) |-> Trim(pieces[k])], NonEmpty)

\* lines 111-118: the lines of one date
CsvDateLines(store, dateStr, prize) ==
    LET agg == store[dateStr]
    IN  IF prize \in DOMAIN agg.results /\ Len(agg.results[prize]) > 0
        THEN LET numbers == CsvNumbers(agg.results[prize])
             IN  [k \in 1..Len(numbers) |-> [num |-> numbers[k], dateStr |-> dateStr]]
        ELSE <<>>

RECURSIVE CsvLinesFrom(_, _, _, _)
\* for (const { dateStr } of dateMap)
CsvLinesFrom(store, dm, k, prize) ==
    IF k > Len(dm) THEN <<>>
    ELSE CsvDateLines(store, dm[k], prize) \o CsvLinesFrom(store, dm, k + 1, prize)

\* lines 104-119
CsvLines(store, prize) == CsvLinesFrom(store, SortByDate(DOMAIN store), 1, prize)

CsvInit ==
    /\ now = CsvClock
    /\ cache \in {<<>>} \cup
                 {<<[fetchedAt |-> ClockValue(CsvClock) - age, data |-> snap]>> :
                     age \in {1, CACHE_TTL_MS, 30 * CACHE_TTL_MS}, snap \in CsvSnapshots}
    /\ perFileAggMap = EmptyObj
    /\ prizeSelect = "" /\ showCsvDisabled = TRUE /\ csvPending = <<>>
    /\ csvOutput = [display |-> "none", lines |-> <<>>, message |-> "", prize |-> ""]
    /\ localFolder = <<>> /\ tempDir = <<>> /\ archive = <<>> /\ exitCode = <<>>
    /\ fileText = <<>> /\ aggregate = <<>> /\ enumerated = <<>>
    /\ pc = "csvPage"
    /\ timeMode = "draws" /\ drawsInput = <<>> /\ yearsInput = <<>>
    /\ monthsInput = <<>> /\ fixedStart = FALSE
    /\ dateMap = <<>> /\ selectedDates = <<>>
    /\ counts = EmptyObj /\ digitCounts = EmptyObj /\ resultsByDate = EmptyObj
    /\ pendingBlob = <<>> /\ recentToFetch = <<>> /\ olderToFetch = <<>>
    /\ gi = 0 /\ parserWorker = "none" /\ loading = FALSE
    /\ output = [renders |-> 0, dates |-> {}]
    /\ uiEvents = 0
    /\ urls = <<>> /\ concurrency = 0 /\ idx = 0 /\ completed = 0
    /\ results = <<>> /\ workers = <<>> /\ batch = "none" /\ issued = NoIssue
    /\ failed = {} /\ served = <<>>

csvRest == <<poolVars, dateMap, selectedDates, mergeVars, uiVars, now, fileText,
             aggregate, enumerated, updVars, pipeVars,
             output, uiEvents, pc>>

\* lines 30-32: the 'change' handler of prizeSelect
PrizeChange ==
    \E value \in CsvPrizes \cup {""} :
        /\ value # prizeSelect
        /\ prizeSelect' = value
        /\ showCsvDisabled' = (value = "")
        /\ UNCHANGED <<csvPending, csvOutput, perFileAggMap>>

\* lines 78-87: the click handler up to its await; a disabled button gets
\* no click
ShowCsvClick ==
    /\ ~showCsvDisabled
    /\ prizeSelect # ""
    /\ Len(csvPending) < MaxCsvPending
    /\ showCsvDisabled' = TRUE
    /\ csvOutput' = [csvOutput EXCEPT !.display = "none"]
    /\ csvPending' = Append(csvPending, prizeSelect)
    /\ UNCHANGED <<prizeSelect, perFileAggMap>>

\* lines 87-130: loadCacheBlob resolves (with null when the database or the
\* read fails) and the handler runs to its end
CsvLoadSettle ==
    \E k \in DOMAIN csvPending, outcome \in {"read", "fail"} :
        LET prize == csvPending[k]
            cached == IF outcome = "read" THEN cache ELSE <<>>
            store == IF cached # <<>> THEN cached[1].data ELSE perFileAggMap
            lines == CsvLines(store, prize)
        IN  /\ csvPending' = SubSeq(csvPending, 1, k - 1)
                                \o SubSeq(csvPending, k + 1, Len(csvPending))
            /\ perFileAggMap' = store
            /\ showCsvDisabled' = FALSE
            /\ IF DOMAIN store = {}
               THEN UNCHANGED csvOutput
               ELSE csvOutput' = [display |-> "block",
                                  lines |-> lines,
                                  message |-> IF Len(lines) = 0 THEN NoDataText
                                              ELSE "",
                                  prize |-> prize]
            /\ UNCHANGED prizeSelect

CsvNext ==
    \/ PrizeChange /\ UNCHANGED csvRest
    \/ ShowCsvClick /\ UNCHANGED csvRest
    \/ CsvLoadSettle /\ UNCHANGED csvRest

SpecCsv == CsvInit /\ [][CsvNext]_vars

\* the number of lines `val,d` of an export
LineCount(lines, val, d) ==
    Cardinality({k \in 1..Len(lines) : lines[k] = [num |-> val, dateStr |-> d]})

\* C21: an export shown for a prize holds, for every date of the store and
\* every value the date's file gave the prize, as many lines `value,date` as
\* the value has occurrences in the file, no other line, and the lines are
\* in ascending order of date.
C21_CsvLinePerOccurrence ==
    csvOutput.display = "block" =>
        LET prize == csvOutput.prize
            lines == csvOutput.lines
        IN  /\ \A d \in DOMAIN perFileAggMap :
                  \A val \in DOMAIN perFileAggMap[d].prizesAgg[prize] :
                      LineCount(lines, val, d) = perFileAggMap[d].prizesAgg[prize][val]
            /\ \A k \in 1..Len(lines) :
                  /\ lines[k].dateStr \in DOMAIN perFileAggMap
                  /\ lines[k].num \in
                         DOMAIN perFileAggMap[lines[k].dateStr].prizesAgg[prize]
            /\ \A i, j \in 1..Len(lines) :
                  i < j => ~DateLess(lines[j].dateStr, lines[i].dateStr)

\* C29: an export is shown only from a snapshot whose timestamp is within
\* the 24-hour freshness window.
C29_CsvSnapshotFresh ==
    csvOutput.display = "block" => AcceptCached(cache, now)

----------------------------------------------------------------------------
(* The archive updater (src/updateLottoFolder.js), run again and again on  *)
(* the same working directory.  A folder is <<>> when it does not exist    *)
(* and <<S>>, S its set of files, when it does.                            *)

UpdFiles == {"2007-01-16.txt", "2007-02-01.txt"}

Folders == {<<>>} \cup {<<S>> : S \in SUBSET UpdFiles}

\* what the download may give: bytes that are no zip archive, or an archive
\* of thai-lotto-archive-master with or without its lottonumbers folder
Archives == [valid : BOOLEAN, folder : Folders]

\* zip.extractAllTo(tempDir, true): the entries are written over what the
\* directory holds; what it held and the archive lacks stays
ExtractAllTo(temp, zip) ==
    IF zip.folder = <<>>
    THEN IF temp = <<>> THEN <<[folder |-> <<>>]>> ELSE temp
    ELSE IF temp = <<>> \/ temp[1].folder = <<>> THEN <<[folder |-> zip.folder]>>
    ELSE <<[folder |-> <<temp[1].folder[1] \cup zip.folder[1]>>]>>

\* lines 18-41, which run without a pause once the body has arrived; fault
\* names the file-system call that throws, if one does
UpdateFolder(zip, fault, local, temp) ==
    IF ~zip.valid
    THEN [localFolder |-> local, tempDir |-> temp, exitCode |-> 1]
    ELSE LET extracted == ExtractAllTo(temp, zip)
             sourceFolder == extracted[1].folder
         IN  IF sourceFolder = <<>>                   \* !fs.existsSync(sourceFolder)
             THEN [localFolder |-> local, tempDir |-> <<>>, exitCode |-> 1]
             ELSE IF fault = "rmSync" /\ local # <<>>
             THEN [localFolder |-> local, tempDir |-> extracted, exitCode |-> 1]
             ELSE IF fault = "cpSync"
             THEN [localFolder |-> <<>>, tempDir |-> extracted, exitCode |-> 1]
             ELSE [localFolder |-> sourceFolder, tempDir |-> <<>>, exitCode |-> 0]

UpdInit ==
    /\ localFolder \in Folders
    /\ tempDir = <<>> /\ archive = <<>> /\ exitCode = <<>>
    /\ pc = "fetch"
    /\ prizeSelect = "" /\ showCsvDisabled = TRUE /\ csvPending = <<>>
    /\ csvOutput = [display |-> "none", lines |-> <<>>, message |-> "", prize |-> ""]
    /\ fileText = <<>> /\ aggregate = <<>> /\ enumerated = <<>>
    /\ perFileAggMap = EmptyObj /\ dateMap = <<>> /\ selectedDates = <<>>
    /\ counts = EmptyObj /\ digitCounts = EmptyObj /\ resultsByDate = EmptyObj
    /\ IdleControls /\ IdlePipeline
    /\ urls = <<>> /\ concurrency = 0 /\ idx = 0 /\ completed = 0
    /\ results = <<>> /\ workers = <<>> /\ batch = "none" /\ issued = NoIssue
    /\ failed = {} /\ served = <<>>

updRest == <<poolVars, perFileAggMap, dateMap, selectedDates, mergeVars, uiVars, now,
             fileText, aggregate, enumerated, csvVars, pipeVars, output, uiEvents>>

\* line 15-16: await fetch(zipUrl) settles; a rejection or a response that
\* is not ok ends in the catch of line 41: process.exit(1)
UpdFetchSettle ==
    \E outcome \in {"reject", "notOk", "ok"} :
        /\ pc = "fetch"
        /\ IF outcome = "ok"
           THEN pc' = "arrayBuffer" /\ exitCode' = exitCode
           ELSE pc' = "exited" /\ exitCode' = <<1>>
        /\ UNCHANGED <<localFolder, tempDir, archive>>

\* line 18: await res.arrayBuffer() settles, and the script runs to its end
UpdBodySettle ==
    \E outcome \in {"reject", "ok"}, zip \in Archives,
       fault \in {"none", "rmSync", "cpSync"} :
        /\ pc = "arrayBuffer"
        /\ pc' = "exited"
        /\ IF outcome = "reject"
           THEN /\ exitCode' = <<1>>
                /\ UNCHANGED <<localFolder, tempDir, archive>>
           ELSE LET end == UpdateFolder(zip, fault, localFolder, tempDir)
                IN  /\ archive' = <<zip>>
                    /\ localFolder' = end.localFolder
                    /\ tempDir' = end.tempDir
                    /\ exitCode' = <<end.exitCode>>

\* the script is started again
UpdStart ==
    /\ pc = "exited"
    /\ pc' = "fetch"
    /\ archive' = <<>> /\ exitCode' = <<>>
    /\ UNCHANGED <<localFolder, tempDir>>

UpdNext ==
    \/ UpdFetchSettle /\ UNCHANGED updRest
    \/ UpdBodySettle /\ UNCHANGED updRest
    \/ UpdStart /\ UNCHANGED updRest

SpecUpd == UpdInit /\ [][UpdNext]_vars

\* C30: the local folder changes only in a run whose archive was downloaded,
\* is a zip archive and holds the source folder; a run whose download failed
\* or whose archive lacks the source folder exits with status 1, leaving no
\* temporary directory when the folder was missing.
C30_DeleteOnlyAfterVerified ==
    /\ [][localFolder' # localFolder =>
             archive' # <<>> /\ archive'[1].valid /\ archive'[1].folder # <<>>]_vars
    /\ [](pc = "exited" =>
             /\ archive = <<>> => exitCode = <<1>>
             /\ (archive # <<>> /\ archive[1].valid /\ archive[1].folder = <<>>)
                    => exitCode = <<1>> /\ tempDir = <<>>)

=============================================================================
